---- MODULE Spec2Model ----
(***************************************************************************)
(* A state-machine model of four request handlers of the repository:       *)
(*   - PHPExecutor.execute    (src/src/execute/php-executor.ts)            *)
(*   - signup                 (src/pages/api/auth/signup/index.ts)         *)
(*   - the blog-post listing  (src/src/blogposts/get-blogposts.ts)         *)
(*   - editBlogPost           (src/unnamed/part_000)                       *)
(* Each handler has its own specification (SpecExec, SpecSignup, SpecBlog, *)
(* SpecEdit) over the shared variables; a specification leaves the other   *)
(* handlers' variables at their initial values.                            *)
(***************************************************************************)
EXTENDS Integers, Sequences, FiniteSets, TLC

VARIABLES
    config,     \* process-wide resource ceilings, read once at start-up
    exec,       \* exec[e]: the locals and position of one call of execute
    proc,       \* proc[e]: the docker process spawnHelper launched for e
    fs,         \* the temp-file namespace: path -> content of existing files
    nextId,     \* source of getUniqueFileName's tokens
    uniqueIndex,\* signup: whether the user table enforces unique email/phone
    users,      \* signup: the rows of prisma.user
    sreq,       \* signup: sreq[r] is one in-flight signup request
    posts,      \* blog: the rows of prisma.blogPost
    resp,       \* blog: the response of the last listing request
    tagTable,   \* edit: the names of the rows of prisma.blogPostTag
    ereq        \* edit: ereq[r] is one in-flight editBlogPost request

execVars   == <<config, exec, proc, fs, nextId>>
signupVars == <<uniqueIndex, users, sreq>>
blogVars   == <<posts, resp>>
editVars   == <<tagTable, ereq>>
vars       ==
    <<config, exec, proc, fs, nextId, uniqueIndex, users, sreq, posts, resp,
      tagTable, ereq>>

(***************************************************************************)
(* PHPExecutor.execute                                                     *)
(***************************************************************************)

\* Number of calls of execute that may be in flight together.
NumExec == 2

Execs == 1..NumExec

\* Submitted requests (ExecutionOptions): a program that reads nothing and
\* one that is given a line of input.
Options ==
    { [code |-> "codeA", stdin |-> << >>],
      [code |-> "codeB", stdin |-> <<"line1">>] }

\* Candidate deployment configurations (EXECUTION_TIME_LIMIT seconds,
\* EXECUTION_MEMORY_LIMIT megabytes); one is fixed when the process starts.
Configs == {[cpu |-> 2, mem |-> 128], [cpu |-> 10, mem |-> 512]}

EXECUTION_TIME_LIMIT   == config.cpu
EXECUTION_MEMORY_LIMIT == config.mem

PHP_IMAGE_TAG == "PHP_IMAGE_TAG"

FORCED_DOCKER_EXIT_CODE == 137

\* Exit codes a docker run can end with: success, a runtime failure of the
\* user's program, and 137 (SIGKILL by the ceilings, or the program's own exit).
ExitCodes == {0, 1, FORCED_DOCKER_EXIT_CODE}

DIAGNOSTIC ==
    <<"process exited with code 137. Most likely due to exceeding memory or CPU time limit.">>

NoResult == [stdout |-> <<"<none>">>, stderr |-> <<"<none>">>]

\* What the user's program prints, as a function of the file mounted at
\* /code.php and the input it was given: the output names the program that ran.
ProgramStdout(mounted, input) == <<mounted>> \o input
ProgramStderr(mounted, exitCode) ==
    IF exitCode = 1 THEN <<"error in", mounted>> ELSE << >>

\* utils.getUniqueFileName: a token no other caller receives.
GetUniqueFileName == nextId

\* tempFileName = uniqueId + ".php"
TempFileName_Fixed(uniqueId) == <<0, ".php">>
TempFileName(uniqueId) == <<uniqueId, ".php">>

\* The docker invocation built for one execution (memory 0: no --memory flag).
DockerArgs_NoMemory(tempFilePath) ==
    [ interactive |-> TRUE,
      rm          |-> TRUE,
      ulimitCpu   |-> EXECUTION_TIME_LIMIT,
      memory      |-> 0,
      mountSource |-> tempFilePath,
      mountTarget |-> "/code.php",
      readonly    |-> TRUE,
      image       |-> PHP_IMAGE_TAG,
      cmd         |-> <<"php", "/code.php">> ]
DockerArgs(tempFilePath) ==
    [ interactive |-> TRUE,
      rm          |-> TRUE,
      ulimitCpu   |-> EXECUTION_TIME_LIMIT,
      memory      |-> EXECUTION_MEMORY_LIMIT,
      mountSource |-> tempFilePath,
      mountTarget |-> "/code.php",
      readonly    |-> TRUE,
      image       |-> PHP_IMAGE_TAG,
      cmd         |-> <<"php", "/code.php">> ]

NoArgs == DockerArgs(<<0, "">>)

\* The stdin argument execute hands to spawnHelper.
SpawnStdin_Empty(options) == << >>
SpawnStdin(options) == options.stdin

\* if (code == FORCED_DOCKER_EXIT_CODE) stderr += "..."
NormalizeStderr_AnyFailure(code, stderr) ==
    IF code # 0 THEN stderr \o DIAGNOSTIC ELSE stderr
NormalizeStderr(code, stderr) ==
    IF code = FORCED_DOCKER_EXIT_CODE THEN stderr \o DIAGNOSTIC ELSE stderr

IdleExec ==
    [ pc            |-> "idle",
      options       |-> [code |-> "", stdin |-> << >>],
      uniqueId      |-> 0,
      tempFilePath  |-> <<0, "">>,
      created       |-> FALSE,
      stdout        |-> << >>,
      stderr        |-> << >>,
      code          |-> 0,
      cleanup       |-> "none",      \* "none" | "removed" | "failed"
      logged        |-> FALSE,       \* console.error was called
      failure       |-> "none",      \* "none" | "workspace" | "launch"
      outcome       |-> "pending",   \* "pending" | "returned" | "threw"
      result        |-> NoResult ]

NoProc ==
    [ status      |-> "none",        \* "none" | "running" | "exited"
      args        |-> NoArgs,
      mounted     |-> "",
      given       |-> << >>,         \* the stdin spawnHelper was called with
      delivered   |-> << >>,         \* what has been written to the input stream
      stdinClosed |-> FALSE,
      stdout      |-> << >>,
      stderr      |-> << >>,
      code        |-> 0 ]

\* fs with `path` holding `content` (created or overwritten).
WriteFile(path, content) ==
    [p \in (DOMAIN fs) \cup {path} |-> IF p = path THEN content ELSE fs[p]]

\* fs without `path`.
RemoveFile(path) == [p \in (DOMAIN fs) \ {path} |-> fs[p]]

\* A caller invokes execute(options): lines 14-16 up to the await of
\* createTempFile.
Call(e, options) ==
    /\ exec[e].pc = "idle"
    /\ LET uniqueId == GetUniqueFileName
           tempFileName == TempFileName(uniqueId)
       IN exec' = [exec EXCEPT ![e].pc = "createTempFile",
                               ![e].options = options,
                               ![e].uniqueId = uniqueId,
                               ![e].tempFilePath = tempFileName]
    /\ nextId' = nextId + 1
    /\ UNCHANGED <<config, proc, fs, signupVars, blogVars, editVars>>

\* createTempFile wrote the code; execute builds dockerArgs and calls
\* spawnHelper (lines 16-32), which is now pending.
CreateTempFileOk(e) ==
    /\ exec[e].pc = "createTempFile"
    /\ fs' = WriteFile(exec[e].tempFilePath, exec[e].options.code)
    /\ exec' = [exec EXCEPT ![e].pc = "spawnHelper", ![e].created = TRUE]
    /\ UNCHANGED <<config, proc, nextId, signupVars, blogVars, editVars>>

\* createTempFile rejects (disk full, permission denied): the await at line 16
\* is outside any try, so execute rejects.
CreateTempFileFails(e) ==
    /\ exec[e].pc = "createTempFile"
    /\ exec' = [exec EXCEPT ![e].pc = "done",
                            ![e].failure = "workspace",
                            ![e].outcome = "threw"]
    /\ UNCHANGED <<config, proc, fs, nextId, signupVars, blogVars, editVars>>

\* spawnHelper starts docker with dockerArgs; the container reads the file
\* bound at /code.php.
Launch(e) ==
    /\ exec[e].pc = "spawnHelper"
    /\ LET args == DockerArgs(exec[e].tempFilePath)
       IN /\ args.mountSource \in DOMAIN fs
          /\ proc' = [proc EXCEPT ![e] =
                        [NoProc EXCEPT !.status = "running",
                                       !.args = args,
                                       !.mounted = fs[args.mountSource],
                                       !.given = SpawnStdin(exec[e].options)]]
    /\ exec' = [exec EXCEPT ![e].pc = "awaitSpawn"]
    /\ UNCHANGED <<config, fs, nextId, signupVars, blogVars, editVars>>

\* The process cannot be started (docker missing, image missing, bind source
\* gone): spawnHelper rejects and, with no try around line 29, so does execute.
LaunchFails(e) ==
    /\ exec[e].pc = "spawnHelper"
    /\ exec' = [exec EXCEPT ![e].pc = "done",
                            ![e].failure = "launch",
                            ![e].outcome = "threw"]
    /\ UNCHANGED <<config, proc, fs, nextId, signupVars, blogVars, editVars>>

\* spawnHelper writes stdin to the child's input stream ...
WriteStdin(e) ==
    /\ proc[e].status = "running"
    /\ ~proc[e].stdinClosed
    /\ proc[e].delivered # proc[e].given
    /\ proc' = [proc EXCEPT ![e].delivered = proc[e].given]
    /\ UNCHANGED <<config, exec, fs, nextId, signupVars, blogVars, editVars>>

\* ... and then closes it.
CloseStdin(e) ==
    /\ proc[e].status = "running"
    /\ ~proc[e].stdinClosed
    /\ proc[e].delivered = proc[e].given
    /\ proc' = [proc EXCEPT ![e].stdinClosed = TRUE]
    /\ UNCHANGED <<config, exec, fs, nextId, signupVars, blogVars, editVars>>

\* The container terminates: by itself with any code, or killed (137) by the
\* ceilings.  A read-only bind mount keeps it from changing the temp file.
ProcessExit(e, exitCode) ==
    /\ proc[e].status = "running"
    /\ proc[e].stdinClosed
    /\ proc' = [proc EXCEPT
                  ![e].status = "exited",
                  ![e].code = exitCode,
                  ![e].stdout = ProgramStdout(proc[e].mounted, proc[e].delivered),
                  ![e].stderr = ProgramStderr(proc[e].mounted, exitCode)]
    /\ fs' = IF proc[e].args.readonly \/ proc[e].args.mountSource \notin DOMAIN fs
             THEN fs
             ELSE WriteFile(proc[e].args.mountSource, "overwritten")
    /\ UNCHANGED <<config, exec, nextId, signupVars, blogVars, editVars>>

\* The await of spawnHelper (line 29) resumes with the drained output; the
\* exit code is normalised (35-39) and cleanupFile is called (42).
AwaitSpawn_NoAwait(e) ==
    /\ exec[e].pc = "awaitSpawn"
    /\ proc[e].status \in {"running", "exited"}
    /\ exec' = [exec EXCEPT
                  ![e].pc = "cleanupFile",
                  ![e].stdout = proc[e].stdout,
                  ![e].code = proc[e].code,
                  ![e].stderr = NormalizeStderr(proc[e].code, proc[e].stderr)]
    /\ UNCHANGED <<config, proc, fs, nextId, signupVars, blogVars, editVars>>
AwaitSpawn(e) ==
    /\ exec[e].pc = "awaitSpawn"
    /\ proc[e].status = "exited"
    /\ exec' = [exec EXCEPT
                  ![e].pc = "cleanupFile",
                  ![e].stdout = proc[e].stdout,
                  ![e].code = proc[e].code,
                  ![e].stderr = NormalizeStderr(proc[e].code, proc[e].stderr)]
    /\ UNCHANGED <<config, proc, fs, nextId, signupVars, blogVars, editVars>>

\* cleanupFile removed the file; execute returns (line 46).
CleanupOk(e) ==
    /\ exec[e].pc = "cleanupFile"
    /\ exec[e].tempFilePath \in DOMAIN fs
    /\ fs' = RemoveFile(exec[e].tempFilePath)
    /\ exec' = [exec EXCEPT
                  ![e].pc = "done",
                  ![e].cleanup = "removed",
                  ![e].outcome = "returned",
                  ![e].result = [stdout |-> exec[e].stdout, stderr |-> exec[e].stderr]]
    /\ UNCHANGED <<config, proc, nextId, signupVars, blogVars, editVars>>

\* cleanupFile rejects (file already gone, permission issue): the catch at
\* line 43 logs the error and execute returns (line 46).
CleanupFails_Propagates(e) ==
    /\ exec[e].pc = "cleanupFile"
    /\ exec' = [exec EXCEPT
                  ![e].pc = "done",
                  ![e].cleanup = "failed",
                  ![e].outcome = "threw"]
    /\ UNCHANGED <<config, proc, fs, nextId, signupVars, blogVars, editVars>>
CleanupFails(e) ==
    /\ exec[e].pc = "cleanupFile"
    /\ exec' = [exec EXCEPT
                  ![e].pc = "done",
                  ![e].cleanup = "failed",
                  ![e].logged = TRUE,
                  ![e].outcome = "returned",
                  ![e].result = [stdout |-> exec[e].stdout, stderr |-> exec[e].stderr]]
    /\ UNCHANGED <<config, proc, fs, nextId, signupVars, blogVars, editVars>>

NextExec ==
    \/ \E e \in Execs, o \in Options : Call(e, o)
    \/ \E e \in Execs : CreateTempFileOk(e)
    \/ \E e \in Execs : CreateTempFileFails(e)
    \/ \E e \in Execs : Launch(e)
    \/ \E e \in Execs : LaunchFails(e)
    \/ \E e \in Execs : WriteStdin(e)
    \/ \E e \in Execs : CloseStdin(e)
    \/ \E e \in Execs, c \in ExitCodes : ProcessExit(e, c)
    \/ \E e \in Execs : AwaitSpawn(e)
    \/ \E e \in Execs : CleanupOk(e)
    \/ \E e \in Execs : CleanupFails(e)

(***************************************************************************)
(* signup                                                                  *)
(***************************************************************************)

\* Number of signup requests that may be handled together.
NumSignup == 2

SignupReqs == 1..NumSignup

Emails == {"a@x.org", "b@x.org"}
Phones == {"+100", "+200"}

\* A request: its method, whether signupSchema accepts its body, and the two
\* fields the duplicate check reads.
SignupBodies == [method : {"POST", "GET"}, valid : BOOLEAN,
                 email : Emails, phoneNumber : Phones]

IdleSignup ==
    [ pc     |-> "idle",       \* "idle" | "findFirst" | "create" | "done"
      body   |-> [method |-> "POST", valid |-> TRUE,
                  email |-> "a@x.org", phoneNumber |-> "+100"],
      status |-> 0,            \* the HTTP status answered, 0 while pending
      error  |-> "" ]

\* prisma.user.findFirst({where: {OR: [{email}, {phoneNumber}]}})
ExistingUsers(email, phoneNumber) ==
    {u \in users : u.email = email \/ u.phoneNumber = phoneNumber}

Respond(r, status, error) ==
    sreq' = [sreq EXCEPT ![r].pc = "done", ![r].status = status, ![r].error = error]

\* Lines 97-117: method check, body validation, and the findFirst query is sent.
SignupReceive(r, body) ==
    /\ sreq[r].pc = "idle"
    /\ IF body.method # "POST"
       THEN sreq' = [sreq EXCEPT ![r].pc = "done", ![r].body = body,
                                 ![r].status = 405, ![r].error = "Method not allowed"]
       ELSE IF ~body.valid
       THEN sreq' = [sreq EXCEPT ![r].pc = "done", ![r].body = body,
                                 ![r].status = 400, ![r].error = "validation"]
       ELSE sreq' = [sreq EXCEPT ![r].pc = "findFirst", ![r].body = body]
    /\ UNCHANGED <<uniqueIndex, users, execVars, blogVars, editVars>>

\* Lines 113-127: the lookup runs against the table as it is now; a match is
\* answered 400, otherwise the password is hashed and the create is sent.
SignupFindFirst(r) ==
    /\ sreq[r].pc = "findFirst"
    /\ LET found == ExistingUsers(sreq[r].body.email, sreq[r].body.phoneNumber)
       IN IF found # {}
          THEN \E existingUser \in found :
                 Respond(r, 400,
                         IF existingUser.email = sreq[r].body.email
                         THEN "User with this email already exists"
                         ELSE "User with this phone number already exists")
          ELSE sreq' = [sreq EXCEPT ![r].pc = "create"]
    /\ UNCHANGED <<uniqueIndex, users, execVars, blogVars, editVars>>

\* Lines 130-145: prisma.user.create inserts the row (201); when the table
\* enforces uniqueness and the row collides, create throws and the catch
\* answers 500.
SignupCreate(r) ==
    /\ sreq[r].pc = "create"
    /\ LET b == sreq[r].body
       IN IF uniqueIndex /\ ExistingUsers(b.email, b.phoneNumber) # {}
          THEN /\ Respond(r, 500, "Internal server error")
               /\ UNCHANGED users
          ELSE /\ users' = users \cup
                     {[email |-> b.email, phoneNumber |-> b.phoneNumber, by |-> r]}
               /\ Respond(r, 201, "")
    /\ UNCHANGED <<uniqueIndex, execVars, blogVars, editVars>>

NextSignup ==
    \/ \E r \in SignupReqs, b \in SignupBodies : SignupReceive(r, b)
    \/ \E r \in SignupReqs : SignupFindFirst(r)
    \/ \E r \in SignupReqs : SignupCreate(r)

(***************************************************************************)
(* Blog-post listing                                                       *)
(***************************************************************************)

\* Number of rows of the blogPost table.
NumPosts == 2

PostIds == 1..NumPosts

UserIds == {1, 2}

\* The rows the table may hold: row i has id i, was posted at time i, and
\* carries any owner, visibility, title and tag set.
PostRows(i) ==
    [ id : {i}, userId : UserIds, isHidden : BOOLEAN,
      title : {<<"a">>, <<"b">>}, content : {<<"c">>}, description : {<<"d">>},
      tags : {{}, {"t1"}}, upvotes : {i % 2}, downvotes : {0}, postedAt : {i} ]

\* req.user: null for an unauthenticated requester.
NoUser == [userId |-> 0, isAdmin |-> FALSE]
Requesters ==
    {NoUser, [userId |-> 1, isAdmin |-> FALSE], [userId |-> 2, isAdmin |-> FALSE],
     [userId |-> 1, isAdmin |-> TRUE]}

\* The query strings tried: every combination of the filters, plus a request
\* with another method and one with a sortBy the schema rejects.
GetQueries ==
    [ method : {"GET"}, user : Requesters,
      search : {<< >>, <<"a">>}, tags : {<< >>, <<"t1">>},
      sortBy : {"", "valued", "controversial"},
      showMyBlogPosts : BOOLEAN, page : {1, 2}, pageSize : {1, 2} ]
ListQueries ==
    GetQueries \cup
    {[method |-> m, user |-> NoUser, search |-> << >>, tags |-> << >>,
      sortBy |-> sb, showMyBlogPosts |-> FALSE, page |-> 1, pageSize |-> 1] :
        m \in {"POST"}, sb \in {"newest"}}

NoResp == [status |-> 0, posts |-> << >>, total |-> 0]

\* String.contains: `needle` occurs in `text` as a contiguous run.
Contains(text, needle) ==
    \E k \in 0..(Len(text) - Len(needle)) :
        \A j \in 1..Len(needle) : text[k + j] = needle[j]

\* One element of a Prisma where.OR list, evaluated on a row.
CondHolds(c, p) ==
    CASE c.kind = "isHidden"     -> p.isHidden = c.value
      [] c.kind = "hiddenOwn"    -> p.isHidden /\ p.userId = c.userId
      [] c.kind = "title"        -> Contains(p.title, c.contains)
      [] c.kind = "content"      -> Contains(p.content, c.contains)
      [] c.kind = "description"  -> Contains(p.description, c.contains)

\* A Prisma where object: its top-level keys are conjoined, the elements of
\* its OR list disjoined.  hasOR, hasHidden, hasUser, hasTags say which keys
\* are present.
WhereHolds(where, p) ==
    /\ where.hasOR => \E k \in 1..Len(where.OR) : CondHolds(where.OR[k], p)
    /\ where.hasHidden => p.isHidden = where.isHidden
    /\ where.hasUser => p.userId = where.userId
    /\ where.hasTags => \E t \in p.tags : \E k \in 1..Len(where.tags) : where.tags[k] = t

EmptyWhere ==
    [ hasOR |-> FALSE, OR |-> << >>, hasHidden |-> FALSE, isHidden |-> FALSE,
      hasUser |-> FALSE, userId |-> 0, hasTags |-> FALSE, tags |-> << >> ]

\* Lines 54-72: the visibility part of the where clause.
VisibilityWhere(q) ==
    LET userId == q.user.userId
    IN IF q.user # NoUser
       THEN LET w == [EmptyWhere EXCEPT
                        !.hasOR = TRUE,
                        !.OR = <<[kind |-> "isHidden", value |-> FALSE],
                                 [kind |-> "hiddenOwn", userId |-> userId]>>
                               \o (IF q.user.isAdmin
                                   THEN <<[kind |-> "isHidden", value |-> TRUE]>>
                                   ELSE << >>)]
            IN IF q.showMyBlogPosts
               THEN [w EXCEPT !.hasUser = TRUE, !.userId = userId]
               ELSE w
       ELSE [EmptyWhere EXCEPT !.hasHidden = TRUE, !.isHidden = FALSE]

\* Lines 75-84: the search conditions are pushed onto where.OR (created
\* empty when absent).
SearchWhere(where, search) ==
    IF search # << >>
    THEN [where EXCEPT
            !.hasOR = TRUE,
            !.OR = where.OR \o <<[kind |-> "title", contains |-> search],
                                 [kind |-> "content", contains |-> search],
                                 [kind |-> "description", contains |-> search]>>]
    ELSE where

\* Lines 87-95.
TagsWhere(where, tags) ==
    IF Len(tags) > 0 THEN [where EXCEPT !.hasTags = TRUE, !.tags = tags] ELSE where

BuildWhere(q) == TagsWhere(SearchWhere(VisibilityWhere(q), q.search), q.tags)

\* Lines 102-108: row p comes before row r under orderBy (ties by id).
Before(sortBy, p, r) ==
    LET key(x) ==
          CASE sortBy = "valued"        -> <<0 - x.upvotes, x.downvotes, x.id>>
            [] sortBy = "controversial" -> <<0 - x.upvotes, 0 - x.downvotes, x.id>>
            [] OTHER                    -> <<0 - x.postedAt, 0, x.id>>
        a == key(p)
        b == key(r)
    IN \/ a[1] < b[1]
       \/ a[1] = b[1] /\ a[2] < b[2]
       \/ a[1] = b[1] /\ a[2] = b[2] /\ a[3] < b[3]

\* findMany: the matching rows in orderBy order.
Ordered(rows, sortBy) ==
    LET n == Cardinality(rows)
    IN CHOOSE s \in [1..n -> rows] :
         /\ \A i, j \in 1..n : i < j => Before(sortBy, s[i], s[j])

\* skip / take applied to the ordered rows.
Page(s, skip, take) ==
    LET from == skip + 1
        to   == IF skip + take < Len(s) THEN skip + take ELSE Len(s)
    IN IF from > to THEN << >> ELSE [k \in 1..(to - from + 1) |-> s[from + k - 1]]

\* The listing handler, lines 32-136.
GetBlogPosts(q) ==
    /\ resp = NoResp
    /\ resp' =
         IF q.method # "GET" THEN [status |-> 405, posts |-> << >>, total |-> 0, q |-> q]
         ELSE IF q.sortBy \notin {"", "valued", "controversial"}
         THEN [status |-> 400, posts |-> << >>, total |-> 0, q |-> q]
         ELSE IF q.user = NoUser /\ q.showMyBlogPosts
         THEN [status |-> 403, posts |-> << >>, total |-> 0, q |-> q]
         ELSE LET where == BuildWhere(q)
                  rows  == {posts[i] : i \in {j \in PostIds : WhereHolds(where, posts[j])}}
                  skip  == (q.page - 1) * q.pageSize
              IN [status |-> 200,
                  posts  |-> Page(Ordered(rows, q.sortBy), skip, q.pageSize),
                  total  |-> Cardinality(rows),
                  q      |-> q]
    /\ UNCHANGED <<posts, execVars, signupVars, editVars>>

\* The response has been sent; the handler is ready for the next request.
ResponseSent ==
    /\ resp # NoResp
    /\ resp' = NoResp
    /\ UNCHANGED <<posts, execVars, signupVars, editVars>>

NextBlog ==
    \/ \E q \in ListQueries : GetBlogPosts(q)
    \/ ResponseSent

(***************************************************************************)
(* editBlogPost                                                            *)
(***************************************************************************)

\* Number of edit requests that may be handled together.
NumEdit == 2

EditReqs == 1..NumEdit

\* Not-a-number, as Number(id) yields for a non-numeric string.
NaN == -1

\* Number(id) for the ids tried: two existing posts, a post that does not
\* exist, and a non-numeric id.
NumberOf(id) ==
    CASE id = "1"   -> 1
      [] id = "2"   -> 2
      [] id = "7"   -> 7
      [] OTHER      -> NaN

EditIds == {"1", "2", "7", "abc"}

\* req.body: a complete body, a complete body with an empty tag list, and a
\* body whose content is missing (the empty string is falsy, [] is truthy).
EditBodies ==
    { [title |-> <<"n1">>, description |-> <<"nd">>, content |-> <<"nc">>,
       hasTags |-> TRUE, tags |-> <<"t2">>],
      [title |-> <<"n2">>, description |-> <<"nd">>, content |-> <<"nc">>,
       hasTags |-> TRUE, tags |-> << >>],
      [title |-> <<"n1">>, description |-> <<"nd">>, content |-> << >>,
       hasTags |-> TRUE, tags |-> <<"t2">>] }

\* A request as withAuth hands it over: req.query.id, req.body, req.user.userId.
EditRequests == [id : EditIds, body : EditBodies, userId : UserIds]

IdleEdit ==
    [ pc     |-> "idle",      \* "idle" | "findPost" | "update" | "done"
      req    |-> [id |-> "", body |-> [title |-> << >>, description |-> << >>,
                                       content |-> << >>, hasTags |-> FALSE,
                                       tags |-> << >>],
                  userId |-> 0],
      status |-> 0 ]

\* The rows the edited table starts with: any owner per post.
EditRows(i) ==
    [ id : {i}, userId : UserIds, isHidden : {FALSE},
      title : {<<"a">>}, content : {<<"c">>}, description : {<<"d">>},
      tags : {{"t1"}}, upvotes : {0}, downvotes : {0}, postedAt : {i} ]

\* The fields of a row an edit writes.
Edited(p) == <<p.title, p.description, p.content, p.tags>>

\* res.status(status).json(...): the request is answered and its slot keeps
\* only the status.
EditRespond(r, status) ==
    ereq' = [ereq EXCEPT ![r] = [IdleEdit EXCEPT !.pc = "done", !.status = status]]

\* Lines 10-36: the id and the fields are validated (400); the tag lookups of
\* lines 25-36 only read, and the findUnique of the post is sent.
EditReceive(r, req) ==
    /\ ereq[r].pc = "idle"
    /\ IF NumberOf(req.id) = NaN
       THEN EditRespond(r, 400)
       ELSE IF \/ req.body.title = << >> \/ req.body.description = << >>
               \/ req.body.content = << >> \/ ~req.body.hasTags
       THEN EditRespond(r, 400)
       ELSE ereq' = [ereq EXCEPT ![r].pc = "findPost", ![r].req = req]
    /\ UNCHANGED <<posts, tagTable, resp, execVars, signupVars>>

\* Lines 38-52: the post is looked up; absent -> 404, owned by another user
\* -> 403, otherwise the update is sent.
EditFindPost_NoOwnerCheck(r) ==
    /\ ereq[r].pc = "findPost"
    /\ LET id == NumberOf(ereq[r].req.id)
       IN IF id \notin DOMAIN posts
          THEN EditRespond(r, 404)
          ELSE ereq' = [ereq EXCEPT ![r].pc = "update"]
    /\ UNCHANGED <<posts, tagTable, resp, execVars, signupVars>>
EditFindPost(r) ==
    /\ ereq[r].pc = "findPost"
    /\ LET id == NumberOf(ereq[r].req.id)
       IN IF id \notin DOMAIN posts
          THEN EditRespond(r, 404)
          ELSE IF posts[id].userId # ereq[r].req.userId
          THEN EditRespond(r, 403)
          ELSE ereq' = [ereq EXCEPT ![r].pc = "update"]
    /\ UNCHANGED <<posts, tagTable, resp, execVars, signupVars>>

\* Lines 55-70: the update writes title, description and content, replaces
\* the post's tags by the request's (creating the tag rows that are missing)
\* and the updated post is answered with 200.
EditUpdate(r) ==
    /\ ereq[r].pc = "update"
    /\ LET id   == NumberOf(ereq[r].req.id)
           body == ereq[r].req.body
           names == {body.tags[k] : k \in 1..Len(body.tags)}
       IN /\ id \in DOMAIN posts
          /\ posts' = [posts EXCEPT ![id].title = body.title,
                                    ![id].description = body.description,
                                    ![id].content = body.content,
                                    ![id].tags = names]
          /\ tagTable' = tagTable \cup names
    /\ EditRespond(r, 200)
    /\ UNCHANGED <<resp, execVars, signupVars>>

\* Lines 71-74: the update throws (a database error); the catch answers 500.
EditUpdateFails(r) ==
    /\ ereq[r].pc = "update"
    /\ EditRespond(r, 500)
    /\ UNCHANGED <<posts, tagTable, resp, execVars, signupVars>>

NextEdit ==
    \/ \E r \in EditReqs, q \in EditRequests : EditReceive(r, q)
    \/ \E r \in EditReqs : EditFindPost(r)
    \/ \E r \in EditReqs : EditUpdate(r)
    \/ \E r \in EditReqs : EditUpdateFails(r)

(***************************************************************************)
(* Specifications                                                          *)
(***************************************************************************)

InitExec ==
    /\ config \in Configs
    /\ exec = [e \in Execs |-> IdleExec]
    /\ proc = [e \in Execs |-> NoProc]
    /\ fs = << >>
    /\ nextId = 1
    /\ uniqueIndex = TRUE
    /\ users = {}
    /\ sreq = [r \in SignupReqs |-> IdleSignup]
    /\ posts = << >>
    /\ resp = NoResp
    /\ tagTable = {"t1"}
    /\ ereq = [r \in EditReqs |-> IdleEdit]

InitSignup ==
    /\ uniqueIndex \in BOOLEAN
    /\ users \in {{}, {[email |-> "a@x.org", phoneNumber |-> "+100", by |-> 0]}}
    /\ sreq = [r \in SignupReqs |-> IdleSignup]
    /\ config = [cpu |-> 2, mem |-> 128]
    /\ exec = [e \in Execs |-> IdleExec]
    /\ proc = [e \in Execs |-> NoProc]
    /\ fs = << >>
    /\ nextId = 1
    /\ posts = << >>
    /\ resp = NoResp
    /\ tagTable = {"t1"}
    /\ ereq = [r \in EditReqs |-> IdleEdit]

InitBlog ==
    /\ posts \in [PostIds -> UNION {PostRows(i) : i \in PostIds}]
    /\ \A i \in PostIds : posts[i].id = i
    /\ resp = NoResp
    /\ config = [cpu |-> 2, mem |-> 128]
    /\ exec = [e \in Execs |-> IdleExec]
    /\ proc = [e \in Execs |-> NoProc]
    /\ fs = << >>
    /\ nextId = 1
    /\ uniqueIndex = TRUE
    /\ users = {}
    /\ sreq = [r \in SignupReqs |-> IdleSignup]
    /\ tagTable = {"t1"}
    /\ ereq = [r \in EditReqs |-> IdleEdit]

InitEdit ==
    /\ posts \in [PostIds -> UNION {EditRows(i) : i \in PostIds}]
    /\ \A i \in PostIds : posts[i].id = i
    /\ resp = NoResp
    /\ tagTable = {"t1"}
    /\ ereq = [r \in EditReqs |-> IdleEdit]
    /\ config = [cpu |-> 2, mem |-> 128]
    /\ exec = [e \in Execs |-> IdleExec]
    /\ proc = [e \in Execs |-> NoProc]
    /\ fs = << >>
    /\ nextId = 1
    /\ uniqueIndex = TRUE
    /\ users = {}
    /\ sreq = [r \in SignupReqs |-> IdleSignup]

SpecExec   == InitExec /\ [][NextExec]_vars
SpecSignup == InitSignup /\ [][NextSignup]_vars
SpecBlog   == InitBlog /\ [][NextBlog]_vars
SpecEdit   == InitEdit /\ [][NextEdit]_vars

(***************************************************************************)
(* Properties of PHPExecutor.execute                                       *)
(***************************************************************************)

InFlight(e) == exec[e].pc \notin {"idle", "done"}

Launched(e) == proc[e].status # "none"

\* C1: every call of execute ends by returning a {stdout, stderr} result,
\* never by propagating an error, and a workspace or launch failure surfaces
\* as a result with non-empty stderr.
C1_AlwaysReturnsResult ==
    \A e \in Execs :
        exec[e].pc = "done" =>
            /\ exec[e].outcome = "returned"
            /\ exec[e].failure # "none" => exec[e].result.stderr # << >>

\* C2: for every execution that created its temp file, removal is attempted
\* on every exit path, so that after the execution has completed its temp
\* file is gone unless a cleanup failure was logged.
C2_TempFileRemovedOnEveryExit ==
    \A e \in Execs :
        (exec[e].pc = "done" /\ exec[e].created) =>
            /\ exec[e].cleanup # "none"
            /\ exec[e].tempFilePath \notin DOMAIN fs \/ exec[e].logged

\* C3: under any interleaving, executions in flight own distinct temp files,
\* the file an execution's process mounts holds that execution's own code from
\* creation until its cleanup, the returned output is that of its own process
\* run on its own code and stdin, and a step of one execution (a crash, a
\* forced termination and a thrown error included) changes neither the locals,
\* the result nor the temp file of any other execution.
C3_Owned ==
    /\ \A e1, e2 \in Execs :
         (e1 # e2 /\ InFlight(e1) /\ InFlight(e2)) =>
             exec[e1].tempFilePath # exec[e2].tempFilePath
    /\ \A e \in Execs :
         /\ exec[e].pc \in {"spawnHelper", "awaitSpawn", "cleanupFile"} =>
              /\ exec[e].tempFilePath \in DOMAIN fs
              /\ fs[exec[e].tempFilePath] = exec[e].options.code
         /\ Launched(e) =>
              /\ proc[e].args.mountSource = exec[e].tempFilePath
              /\ proc[e].mounted = exec[e].options.code
         /\ exec[e].outcome = "returned" =>
              /\ exec[e].result.stdout = proc[e].stdout
              /\ exec[e].result.stdout =
                     ProgramStdout(exec[e].options.code, exec[e].options.stdin)
C3_Frame ==
    \A e \in Execs :
        (exec'[e].pc = exec[e].pc) =>
            /\ exec'[e] = exec[e]
            /\ (exec[e].tempFilePath \in DOMAIN fs) <=> (exec[e].tempFilePath \in DOMAIN fs')
            /\ exec[e].tempFilePath \in DOMAIN fs =>
                   fs'[exec[e].tempFilePath] = fs[exec[e].tempFilePath]
\* C3 (formula): C3_Owned holds in every state and every step satisfies
\* C3_Frame.
C3_Isolation == [](C3_Owned) /\ [][C3_Frame]_vars

\* C3 witness: one execution's process has been killed (exit code 137) while
\* another execution, submitted with other code, has its process running.
C3_Witness ==
    \E e1, e2 \in Execs :
        /\ e1 # e2
        /\ exec[e1].options.code # exec[e2].options.code
        /\ exec[e1].pc = "awaitSpawn" /\ proc[e1].status = "exited"
        /\ proc[e1].code = 137
        /\ exec[e2].pc = "awaitSpawn" /\ proc[e2].status = "running"

\* C4: the returned stderr is the process's raw stderr followed by the
\* forced-termination text exactly when the exit code is 137, and the raw
\* stderr unchanged for every other exit code; the returned stdout is the
\* process's stdout in both cases.
C4_StderrNormalized ==
    \A e \in Execs :
        exec[e].outcome = "returned" =>
            /\ exec[e].result.stdout = proc[e].stdout
            /\ proc[e].code = 137 =>
                   exec[e].result.stderr = proc[e].stderr \o DIAGNOSTIC
            /\ proc[e].code # 137 =>
                   exec[e].result.stderr = proc[e].stderr

\* C4 witness: one execution returned after exit code 137 and another after
\* a runtime failure with stderr output of its own.
C4_Witness ==
    \E e1, e2 \in Execs :
        /\ exec[e1].outcome = "returned" /\ proc[e1].code = 137
        /\ exec[e1].result.stderr = DIAGNOSTIC
        /\ exec[e2].outcome = "returned" /\ proc[e2].code = 1
        /\ exec[e2].result.stderr # << >>

\* C5: when cleanupFile fails, the failure is logged, execute still returns,
\* and what it returns is the {stdout, stderr} computed before the cleanup,
\* which is what a successful cleanup returns.
C5_CleanupFailureIsBestEffort ==
    \A e \in Execs :
        exec[e].cleanup = "failed" =>
            /\ exec[e].outcome = "returned"
            /\ exec[e].logged
            /\ exec[e].result = [stdout |-> exec[e].stdout, stderr |-> exec[e].stderr]
            /\ exec[e].result.stdout = proc[e].stdout

\* C5 witness: a cleanup failed after the program had failed with output on
\* stderr, and the file is still there.
C5_Witness ==
    \E e \in Execs :
        /\ exec[e].cleanup = "failed"
        /\ exec[e].outcome = "returned"
        /\ proc[e].code = 1
        /\ exec[e].result.stderr # << >>
        /\ exec[e].tempFilePath \in DOMAIN fs

\* C6: within one execution the temp file is created with the submitted code
\* before the process is launched, it is not removed while the process runs,
\* and execute returns only after the process has terminated and the cleanup
\* attempt has finished; before that the caller has no result.
C6_StepOrder ==
    \A e \in Execs :
        /\ Launched(e) => exec[e].created /\ proc[e].mounted = exec[e].options.code
        /\ proc[e].status = "running" => exec[e].tempFilePath \in DOMAIN fs
        /\ exec[e].cleanup # "none" => proc[e].status = "exited"
        /\ exec[e].outcome = "returned" =>
               proc[e].status = "exited" /\ exec[e].cleanup # "none"
        /\ exec[e].outcome # "returned" => exec[e].result = NoResult

\* C6 witness: an execution returned after its process exited and its file
\* was removed.
C6_Witness ==
    \E e \in Execs :
        /\ exec[e].outcome = "returned"
        /\ proc[e].status = "exited"
        /\ exec[e].cleanup = "removed"
        /\ exec[e].tempFilePath \notin DOMAIN fs

\* C8: the launched process is handed the request's stdin: what has been
\* written to its input stream is never anything but the request's stdin or
\* nothing yet, and the stream is closed only once all of it is delivered.
C8_StdinBeforeClose ==
    \A e \in Execs :
        /\ Launched(e) => proc[e].delivered \in {<< >>, exec[e].options.stdin}
        /\ proc[e].stdinClosed => proc[e].delivered = exec[e].options.stdin

\* C8 witness: a process whose input stream was closed after a non-empty
\* stdin was delivered.
C8_Witness ==
    \E e \in Execs :
        /\ proc[e].stdinClosed
        /\ exec[e].options.stdin # << >>
        /\ proc[e].delivered = exec[e].options.stdin

\* C9: every launched process carries the configured CPU-time and memory
\* ceilings, the same for all executions whatever their code and stdin, and
\* mounts its execution's temp file read-only at /code.php.
C9_SameCeilings ==
    /\ \A e \in Execs :
         Launched(e) =>
             /\ proc[e].args.ulimitCpu = config.cpu /\ proc[e].args.ulimitCpu > 0
             /\ proc[e].args.memory = config.mem /\ proc[e].args.memory > 0
             /\ proc[e].args.readonly
             /\ proc[e].args.mountSource = exec[e].tempFilePath
             /\ proc[e].args.mountTarget = "/code.php"
    /\ \A e1, e2 \in Execs :
         (Launched(e1) /\ Launched(e2)) =>
             /\ proc[e1].args.ulimitCpu = proc[e2].args.ulimitCpu
             /\ proc[e1].args.memory = proc[e2].args.memory

\* C9 witness: two processes launched for requests with different code and
\* stdin.
C9_Witness ==
    \E e1, e2 \in Execs :
        /\ Launched(e1) /\ Launched(e2)
        /\ exec[e1].options.code # exec[e2].options.code
        /\ exec[e1].options.stdin # exec[e2].options.stdin

(***************************************************************************)
(* Properties of signup                                                    *)
(***************************************************************************)

SameIdentity(a, b) == a.email = b.email \/ a.phoneNumber = b.phoneNumber

Answered(r) == sreq[r].pc = "done" /\ sreq[r].body.method = "POST" /\ sreq[r].body.valid

\* C7: a signup whose email or phone number equals that of an existing user
\* is answered 400 and creates no user, also when two such requests are
\* handled concurrently: no two users share an email or a phone number, and
\* of two answered requests with the same email or phone number at most one
\* got 201 and, if one did, the other got 400.
C7_DuplicateSignupRejected ==
    /\ \A u1, u2 \in users : SameIdentity(u1, u2) => u1 = u2
    /\ \A r1, r2 \in SignupReqs :
         (r1 # r2 /\ Answered(r1) /\ Answered(r2)
            /\ SameIdentity(sreq[r1].body, sreq[r2].body)
            /\ sreq[r1].status = 201) => sreq[r2].status = 400

(***************************************************************************)
(* Properties of the blog-post listing                                     *)
(***************************************************************************)

\* C10: a hidden post is in the returned posts only when the requester is
\* its author or an admin, whatever the search, tags, sortBy and
\* showMyBlogPosts parameters.
C10_HiddenOnlyForAuthorOrAdmin ==
    resp.status = 200 =>
        \A k \in 1..Len(resp.posts) :
            resp.posts[k].isHidden =>
                /\ resp.q.user # NoUser
                /\ resp.posts[k].userId = resp.q.user.userId \/ resp.q.user.isAdmin

(***************************************************************************)
(* Properties of editBlogPost                                              *)
(***************************************************************************)

\* Request r is answered with `status` in this step.
AnsweredNow(r, status) ==
    ereq[r].pc # "done" /\ ereq'[r].pc = "done" /\ ereq'[r].status = status

\* C11: a post's title, description, content and tags are changed only by a
\* request whose authenticated user owns that post, and a step that answers a
\* request with 400, 404 or 403 leaves every blog post unchanged.
C11_StepOnlyOwnerEdits ==
    /\ \A r \in EditReqs :
         (AnsweredNow(r, 400) \/ AnsweredNow(r, 404) \/ AnsweredNow(r, 403)) =>
             posts' = posts
    /\ \A i \in PostIds :
         posts'[i] # posts[i] =>
             \E r \in EditReqs :
                 /\ AnsweredNow(r, 200)
                 /\ NumberOf(ereq[r].req.id) = i
                 /\ ereq[r].req.userId = posts[i].userId
                 /\ Edited(posts'[i]) = <<ereq[r].req.body.title,
                                          ereq[r].req.body.description,
                                          ereq[r].req.body.content,
                                          {ereq[r].req.body.tags[k] :
                                               k \in 1..Len(ereq[r].req.body.tags)}>>
                 /\ posts'[i].userId = posts[i].userId
                 /\ \A j \in PostIds \ {i} : posts'[j] = posts[j]
C11_OnlyOwnerEdits == [][C11_StepOnlyOwnerEdits]_vars

\* C11 witness: one request was refused with 403 and another, by the owner,
\* was answered 200 and changed its post, while the other post is as it was.
C11_Witness ==
    \E r1, r2 \in EditReqs :
        /\ ereq[r1].status = 403
        /\ ereq[r2].status = 200
        /\ \E i, j \in PostIds :
             /\ i # j
             /\ posts[i].title # <<"a">>
             /\ Edited(posts[j]) = <<<<"a">>, <<"d">>, <<"c">>, {"t1"}>>

====
